---- MODULE Spec2Model ----
(***************************************************************************)
(* BLS signatures of libursa (libursa/src/signatures/bls.rs): key pairs,   *)
(* signing with and without rogue-key mitigation, aggregation, single and  *)
(* multi-signer verification and randomized batch verification, in the two *)
(* mirror configurations `normal` (keys in G1, signatures in G2) and       *)
(* `small` (keys in G2, signatures in G1).                                 *)
(*                                                                         *)
(* The pairing library (amcl_wrapper) is outside the repository.  Its      *)
(* groups are modelled algebraically: G1, G2 and GT are cyclic of prime    *)
(* order Q, an element is its discrete logarithm to the group's base       *)
(* point, and the pairing is bilinear, e(a*P1, b*P2) = e(P1, P2)^(a*b).    *)
(* The two hash functions (to the signature group, to the scalar field)    *)
(* are deterministic functions of unknown value: every function is a       *)
(* possible one, collisions and the identity included.                     *)
(***************************************************************************)
EXTENDS Integers, Sequences, FiniteSets, TLC

\* Order of the scalar field and of G1, G2, GT (a prime).
Q == 3
\* Longest list of key pairs generated.
MaxKeys == 2
\* Number of distinct messages.
NumMsgs == 2
\* Longest batch handed to AggregatedSignature::batch_verify.
MaxBatch == 1

Zq == 0 .. (Q - 1)
NonZero == 1 .. (Q - 1)

\* Messages are byte strings.
Msgs == { <<b>> : b \in 1 .. NumMsgs }

VARIABLES
    cfg,        \* "normal" or "small": the module in use
    sks,        \* private keys generated so far, in order
    pks,        \* their public keys, in the same order
    msg_hash,   \* SignatureGroup::from_msg_hash, as far as it was evaluated
    fe_hash,    \* FieldElement::from_msg_hash, as far as it was evaluated
    call        \* the operation applied, its inputs and its result

vars == <<cfg, sks, pks, msg_hash, fe_hash, call>>

----------------------------------------------------------------------------
(* Group algebra of amcl_wrapper, as the code uses it.                     *)

\* A group element: the group it lives in and its discrete logarithm.
Elem(grp, x) == [grp |-> grp, x |-> x % Q]

\* GroupElement::identity()
identity(grp) == Elem(grp, 0)

\* a + b, a += b
Add(a, b) == Elem(a.grp, a.x + b.x)

\* -a
Neg(a) == Elem(a.grp, Q - a.x)

\* a * k for a field element k
Mul(a, k) == Elem(a.grp, a.x * k)

\* type Generator: G1 in normal, G2 in small
GeneratorGroup == IF cfg = "normal" THEN "G1" ELSE "G2"

\* type SignatureGroup: G2 in normal, G1 in small
SignatureGroup == IF cfg = "normal" THEN "G2" ELSE "G1"

\* Generator::generator(): the base point of the key group
generator == Elem(GeneratorGroup, 1)

\* SignatureGroup::from_msg_hash(message)
from_msg_hash(message) == Elem(SignatureGroup, msg_hash[message])

\* FieldElement::from_msg_hash(bytes)
fe_from_msg_hash(bytes) == fe_hash[bytes]

\* e(a, b) in GT, as the exponent of e(P1, P2); defined for a in G1 and b in
\* G2 only, as the argument types of the pairing require.
Pair(a, b) == CASE a.grp = "G1" /\ b.grp = "G2" -> (a.x * b.x) % Q

\* GT::ate_2_pairing(a1, a2, b1, b2) = e(a1, a2) * e(b1, b2)
ate_2_pairing(a1, a2, b1, b2) == (Pair(a1, a2) + Pair(b1, b2)) % Q

RECURSIVE ate_multi_pairing(_)
\* GT::ate_multi_pairing(pairs) = the product of e(p[1], p[2])
ate_multi_pairing(pairs) ==
    IF pairs = <<>> THEN 0
    ELSE (Pair(Head(pairs)[1], Head(pairs)[2]) + ate_multi_pairing(Tail(pairs))) % Q

\* GT::is_one
is_one(gt) == gt = 0

\* Encoded lengths of amcl_wrapper, in bytes: a field element, a G1 and a G2
\* element (G1 shorter than G2).
MODBYTES == 1
GroupG1_SIZE == 1
GroupG2_SIZE == 2

\* A byte: the values that encode a discrete logarithm, and one that does not.
Byte == 0 .. Q

\* to_bytes of a group element: fixed length, G1 shorter than G2
to_bytes(p) == IF p.grp = "G1" THEN <<p.x>> ELSE <<p.x, 0>>

\* FieldElement::to_bytes
fe_to_bytes(x) == <<x>>

\* Result: Ok(value) and Err(error)
Ok(value) == [ok |-> TRUE, value |-> value]
Err(error) == [ok |-> FALSE, error |-> error]

\* What from_bytes of amcl_wrapper returns for bytes of the right length that
\* encode no element is not decided in this repository: `verdict`, an error or
\* some element.  Bytes of another length are an error, an encoding decodes to
\* what it encodes.
group_from_bytes(grp, bytes, verdict) ==
    IF Len(bytes) # (IF grp = "G1" THEN GroupG1_SIZE ELSE GroupG2_SIZE)
    THEN Err("IncorrectSize")
    ELSE IF \E x \in Zq : bytes = to_bytes(Elem(grp, x))
         THEN Ok(CHOOSE p \in {Elem(grp, x) : x \in Zq} : bytes = to_bytes(p))
         ELSE verdict

\* FieldElement::from_bytes, likewise.
fe_from_bytes(bytes, verdict) ==
    IF Len(bytes) # MODBYTES THEN Err("IncorrectSize")
    ELSE IF \E x \in Zq : bytes = fe_to_bytes(x)
         THEN Ok(CHOOSE x \in Zq : bytes = fe_to_bytes(x))
         ELSE verdict

\* .map_err(|e| CryptoError::ParseError(format!("{:?}", e)))
map_err_ParseError(result) ==
    IF result.ok THEN result
    ELSE Err([kind |-> "ParseError", msg |-> result.error])

----------------------------------------------------------------------------
(* Keys.                                                                   *)

\* PublicKey::new(sk, g) = g * sk
PublicKey_new(sk, g) == Mul(g, sk)

\* generate(g) for the drawn private key sk: (pk, sk)
generate(g, sk) == <<PublicKey_new(sk, g), sk>>

RECURSIVE extend_all(_)
\* for k in keys { bytes.extend_from_slice(k.to_bytes()) }
extend_all(keys) ==
    IF keys = <<>> THEN <<>> ELSE to_bytes(Head(keys)) \o extend_all(Tail(keys))

\* The hash input of signer k's coefficient: all keys, then k once more.
coefficient_input(keys, k) == extend_all(keys) \o to_bytes(k)

\* Every hash input the coefficients of a key list need.
coefficient_inputs(keys) ==
    { coefficient_input(keys, keys[i]) : i \in 1 .. Len(keys) }

RECURSIVE apk_fold_scaled_sum(_, _, _)
\* The fold of AggregatedPublicKey::from as (apk + k) * H(bytes || k).
apk_fold_scaled_sum(keys, rest, apk) ==
    IF rest = <<>> THEN apk
    ELSE apk_fold_scaled_sum(
             keys, Tail(rest),
             Mul(Add(apk, Head(rest)),
                 fe_from_msg_hash(coefficient_input(keys, Head(rest)))))

RECURSIVE apk_fold(_, _, _)
\* keys.iter().fold(identity, |apk, k| apk + k * H(bytes || k))
apk_fold(keys, rest, apk) ==
    IF rest = <<>> THEN apk
    ELSE apk_fold(keys, Tail(rest),
             Add(apk, Mul(Head(rest),
                          fe_from_msg_hash(coefficient_input(keys, Head(rest))))))

RECURSIVE sum_fold(_, _)
\* elems.iter().fold(acc, |a, p| a + p), and the loop self += p
sum_fold(elems, acc) ==
    IF elems = <<>> THEN acc ELSE sum_fold(Tail(elems), Add(acc, Head(elems)))

\* AggregatedPublicKey::new adding the keys up without their coefficients.
AggregatedPublicKey_new_unweighted(keys) ==
    sum_fold(keys, identity(GeneratorGroup))

\* AggregatedPublicKey::new(keys) = AggregatedPublicKey::from(keys)
AggregatedPublicKey_new(keys) == apk_fold(keys, keys, identity(GeneratorGroup))

\* pub const PRIVATE_KEY_SIZE, PUBLIC_KEY_SIZE, SIGNATURE_SIZE
PRIVATE_KEY_SIZE == MODBYTES
PUBLIC_KEY_SIZE == IF cfg = "normal" THEN GroupG1_SIZE ELSE GroupG2_SIZE
SIGNATURE_SIZE == IF cfg = "normal" THEN GroupG2_SIZE ELSE GroupG1_SIZE

\* PublicKey::to_bytes(&self)
PublicKey_to_bytes(self) == to_bytes(self)

\* PublicKey::from_bytes(bytes)
PublicKey_from_bytes(bytes, verdict) ==
    map_err_ParseError(group_from_bytes(GeneratorGroup, bytes, verdict))

\* AggregatedPublicKey::to_bytes(&self)
AggregatedPublicKey_to_bytes(self) == to_bytes(self)

\* AggregatedPublicKey::from_bytes(bytes)
AggregatedPublicKey_from_bytes(bytes, verdict) ==
    map_err_ParseError(group_from_bytes(GeneratorGroup, bytes, verdict))

\* PublicKey::combine(self, pks)
PublicKey_combine(self, others) == sum_fold(others, self)

----------------------------------------------------------------------------
(* Signatures.                                                             *)

\* Signature::new(message, sk) = H(message) * sk
Signature_new(message, sk) == Mul(from_msg_hash(message), sk)

\* Signature::new_with_rk_mitigation leaving the coefficient out.
Signature_new_with_rk_mitigation_no_coefficient(message, sk, pk_index, keys) ==
    Mul(from_msg_hash(message), sk)

\* Signature::new_with_rk_mitigation(message, sk, pk_index, pks);
\* pk_index counts from 0 as in the code.
Signature_new_with_rk_mitigation(message, sk, pk_index, keys) ==
    LET bytes == extend_all(keys) \o to_bytes(keys[pk_index + 1])
        a == fe_from_msg_hash(bytes)
    IN  Mul(Mul(from_msg_hash(message), sk), a)

\* Signature::combine leaving self as it is.
Signature_combine_nothing(self, signatures) == self

\* Signature::combine(self, signatures)
Signature_combine(self, signatures) == sum_fold(signatures, self)

\* Signature::to_bytes(&self)
Signature_to_bytes(self) == to_bytes(self)

\* Signature::from_bytes(bytes)
Signature_from_bytes(bytes, verdict) ==
    map_err_ParseError(group_from_bytes(SignatureGroup, bytes, verdict))

\* The mirror configurations hand the same two pairs to the pairing with the
\* operands in the order the group types require (G1 first).
pairing_operands(key_side, sig_side) ==
    IF cfg = "normal" THEN <<key_side, sig_side>> ELSE <<sig_side, key_side>>

\* Signature::verify pairing the signature with g where the code pairs it
\* with -g.
Signature_verify_no_neg(self, message, pk, g) ==
    LET hash == from_msg_hash(message)
        p1 == pairing_operands(g, self)
        p2 == pairing_operands(pk, hash)
    IN  is_one(ate_2_pairing(p1[1], p1[2], p2[1], p2[2]))

\* Signature::verify pairing the hash with g where the code pairs it with pk.
Signature_verify_wrong_key(self, message, pk, g) ==
    LET hash == from_msg_hash(message)
        p1 == pairing_operands(Neg(g), self)
        p2 == pairing_operands(g, hash)
    IN  is_one(ate_2_pairing(p1[1], p1[2], p2[1], p2[2]))

\* Signature::verify with the two modules out of step: `small` pairs the
\* signature with g where `normal` pairs it with -g.
Signature_verify_small_no_neg(self, message, pk, g) ==
    LET hash == from_msg_hash(message)
        p1 == pairing_operands(IF cfg = "small" THEN g ELSE Neg(g), self)
        p2 == pairing_operands(pk, hash)
    IN  is_one(ate_2_pairing(p1[1], p1[2], p2[1], p2[2]))

\* Signature::verify(self, message, pk, g)
Signature_verify(self, message, pk, g) ==
    LET hash == from_msg_hash(message)
        p1 == pairing_operands(Neg(g), self)
        p2 == pairing_operands(pk, hash)
    IN  is_one(ate_2_pairing(p1[1], p1[2], p2[1], p2[2]))

RECURSIVE verify_multi_loop(_, _, _)
\* The loop of verify_multi over (msg, pk): dup as soon as a hash is already in
\* msg_check (the early return), else the pairs pushed, in the order pushed.
verify_multi_loop(inputs, msg_check, pairs) ==
    IF inputs = <<>> THEN [dup |-> FALSE, pairs |-> pairs]
    ELSE LET hash == from_msg_hash(Head(inputs)[1])
             pk == Head(inputs)[2]
         IN  IF hash \in msg_check THEN [dup |-> TRUE, pairs |-> <<>>]
             ELSE verify_multi_loop(Tail(inputs), msg_check \cup {hash},
                                    Append(pairs, pairing_operands(pk, hash)))

\* Signature::verify_multi without the check for a repeated message hash.
Signature_verify_multi_no_check(self, inputs, g) ==
    LET pairs == [i \in 1 .. Len(inputs) |->
                    pairing_operands(inputs[i][2], from_msg_hash(inputs[i][1]))]
    IN  is_one(ate_multi_pairing(Append(pairs, pairing_operands(Neg(g), self))))

\* Signature::verify_multi(self, inputs, g)
Signature_verify_multi(self, inputs, g) ==
    LET loop == verify_multi_loop(inputs, {}, <<>>)
    IN  IF loop.dup THEN FALSE
        ELSE is_one(ate_multi_pairing(
                 Append(loop.pairs, pairing_operands(Neg(g), self))))

RECURSIVE batch_loop_unscaled_sig(_, _, _, _)
\* The loop of batch_verify adding asg to sig without the random exponent.
batch_loop_unscaled_sig(inputs, random_exponents, pairs, sig) ==
    IF inputs = <<>> THEN [pairs |-> pairs, sig |-> sig]
    ELSE LET random_exponent == Head(random_exponents)
             hash == from_msg_hash(Head(inputs)[1])
             asg == Head(inputs)[2]
             apk == Head(inputs)[3]
         IN  batch_loop_unscaled_sig(
                 Tail(inputs), Tail(random_exponents),
                 Append(pairs, pairing_operands(Mul(apk, random_exponent), hash)),
                 Add(sig, asg))

RECURSIVE batch_loop(_, _, _, _)
\* The loop of batch_verify over (msg, asg, apk), the i-th random exponent being
\* random_exponents[i]: the pairs pushed and the accumulated sig.
batch_loop(inputs, random_exponents, pairs, sig) ==
    IF inputs = <<>> THEN [pairs |-> pairs, sig |-> sig]
    ELSE LET random_exponent == Head(random_exponents)
             hash == from_msg_hash(Head(inputs)[1])
             asg == Head(inputs)[2]
             apk == Head(inputs)[3]
         IN  batch_loop(Tail(inputs), Tail(random_exponents),
                        Append(pairs,
                               pairing_operands(Mul(apk, random_exponent), hash)),
                        Add(sig, Mul(asg, random_exponent)))

\* Signature::batch_verify(inputs, g) for the exponents FieldElement::random() drew
Signature_batch_verify(inputs, random_exponents, g) ==
    LET loop == batch_loop(inputs, random_exponents, <<>>, identity(SignatureGroup))
    IN  is_one(ate_multi_pairing(
            Append(loop.pairs, pairing_operands(Neg(g), loop.sig))))

----------------------------------------------------------------------------
(* Aggregated signatures.                                                  *)

\* AggregatedSignature::new folding from a non-identity element where the
\* code folds from SignatureGroup::identity().
AggregatedSignature_new_from_generator(signatures) ==
    sum_fold(signatures, Elem(SignatureGroup, 1))

\* AggregatedSignature::new(signatures)
AggregatedSignature_new(signatures) ==
    sum_fold(signatures, identity(SignatureGroup))

\* AggregatedSignature::verify pairing the signature with g where the code
\* pairs it with -g.
AggregatedSignature_verify_no_neg(self, message, pk, g) ==
    LET hash == from_msg_hash(message)
        p1 == pairing_operands(g, self)
        p2 == pairing_operands(pk, hash)
    IN  is_one(ate_2_pairing(p1[1], p1[2], p2[1], p2[2]))

\* AggregatedSignature::verify(self, message, pk, g), pk an AggregatedPublicKey
AggregatedSignature_verify(self, message, pk, g) ==
    LET hash == from_msg_hash(message)
        p1 == pairing_operands(Neg(g), self)
        p2 == pairing_operands(pk, hash)
    IN  is_one(ate_2_pairing(p1[1], p1[2], p2[1], p2[2]))

\* AggregatedSignature::verify_no_rk folding the keys from g where the code
\* folds them from the identity.
AggregatedSignature_verify_no_rk_from_g(self, message, keys, g) ==
    LET apk == sum_fold(keys, g)
        hash == from_msg_hash(message)
        p1 == pairing_operands(Neg(g), self)
        p2 == pairing_operands(apk, hash)
    IN  is_one(ate_2_pairing(p1[1], p1[2], p2[1], p2[2]))

\* AggregatedSignature::verify_no_rk(self, message, pks, g)
AggregatedSignature_verify_no_rk(self, message, keys, g) ==
    LET apk == sum_fold(keys, identity(GeneratorGroup))
        hash == from_msg_hash(message)
        p1 == pairing_operands(Neg(g), self)
        p2 == pairing_operands(apk, hash)
    IN  is_one(ate_2_pairing(p1[1], p1[2], p2[1], p2[2]))

\* AggregatedSignature::batch_verify pushing (g, sig) where the code pushes
\* (-g, sig).
AggregatedSignature_batch_verify_no_neg(inputs, random_exponents, g) ==
    LET loop == batch_loop(inputs, random_exponents, <<>>, identity(SignatureGroup))
    IN  is_one(ate_multi_pairing(
            Append(loop.pairs, pairing_operands(g, loop.sig))))

\* AggregatedSignature::batch_verify(inputs, g) for the exponents drawn
AggregatedSignature_batch_verify(inputs, random_exponents, g) ==
    LET loop == batch_loop(inputs, random_exponents, <<>>, identity(SignatureGroup))
    IN  is_one(ate_multi_pairing(
            Append(loop.pairs, pairing_operands(Neg(g), loop.sig))))

\* The signatures of all generated keys over one message, in key order:
\* Signature::new_with_rk_mitigation(message, sks[i], i, pks) or
\* Signature::new(message, sks[i]).
signatures_of(message, rk) ==
    [i \in 1 .. Len(sks) |->
        IF rk THEN Signature_new_with_rk_mitigation(message, sks[i], i - 1, pks)
        ELSE Signature_new(message, sks[i])]

----------------------------------------------------------------------------
(* The environment.  A behaviour generates key pairs, then the caller      *)
(* fixes the inputs of one operation (Request), the two hash functions     *)
(* taking some value on every input the operation will evaluate, and the   *)
(* operation is applied to them.                                           *)

\* FieldElement::random(), PrivateKey::random(): a non-zero field element
random == NonZero

NoCall == [op |-> "none", done |-> FALSE]

Init ==
    /\ cfg \in {"normal", "small"}
    /\ sks = <<>>
    /\ pks = <<>>
    /\ msg_hash = <<>>
    /\ fe_hash = <<>>
    /\ call = NoCall

\* generate(g): one more key pair.
Generate ==
    /\ call.op = "none"
    /\ Len(sks) < MaxKeys
    /\ \E sk \in random :
         LET kp == generate(generator, sk)
         IN  /\ pks' = Append(pks, kp[1])
             /\ sks' = Append(sks, kp[2])
    /\ UNCHANGED <<cfg, msg_hash, fe_hash, call>>

\* sig.verify(message, pks[key], g) for sig = Signature::new(signed, sks[signer])
\* or Signature::new_with_rk_mitigation(signed, sks[signer], signer - 1, pks).
VerifyRequests ==
    [op : {"verify"}, done : {FALSE}, rk : BOOLEAN,
     signer : 1 .. Len(sks), key : 1 .. Len(pks), signed : Msgs, message : Msgs]

\* self.verify_multi(inputs, g) over inputs[i] = (messages[i], pks[i]); self is
\* the first signer's Signature::new over its message with the others' combined
\* into it (honest), or the element `forged` of the signature group.
VerifyMultiRequests ==
    { c \in [op : {"verify_multi"}, done : {FALSE},
             messages : [1 .. Len(pks) -> Msgs], honest : BOOLEAN, forged : Zq] :
        c.honest => (Len(pks) >= 1 /\ c.forged = 0) }

\* AggregatedSignature::new(signatures).verify(message, AggregatedPublicKey::new(pks), g)
\* for the signatures of all keys over `signed`, mitigated (rk) or not.
AggVerifyRequests ==
    [op : {"agg_verify"}, done : {FALSE}, rk : BOOLEAN, signed : Msgs, message : Msgs]

\* AggregatedSignature::new(signatures).verify_no_rk(message, pks, g) for the
\* signatures of all keys over `signed`, mitigated (rk) or not.
AggVerifyNoRkRequests ==
    [op : {"agg_verify_no_rk"}, done : {FALSE}, rk : BOOLEAN,
     signed : Msgs, message : Msgs]

\* The messages of n triples: each triple carries the first message or a
\* message of its own, so that batches repeat a message, or do not.
batch_messages(n) ==
    { f \in [1 .. n -> Msgs] : \A i \in 1 .. n : f[i] \in {<<1>>, <<i>>} }

\* Signature::batch_verify(inputs, g) over one triple per key,
\* (messages[i], Signature::new(messages[i], sks[i]), pks[i]); the signature
\* of triple `bad` (if not 0) is replaced by a different element, delta away.
BatchVerifyRequests ==
    { c \in [op : {"batch_verify"}, done : {FALSE},
             messages : batch_messages(Len(pks)), bad : 0 .. Len(pks),
             delta : NonZero] :
        c.bad = 0 => c.delta = 1 }

\* AggregatedSignature::batch_verify(inputs, g) over n triples; triple i is
\* messages[i], the aggregate of all keys' mitigated signatures over it and
\* AggregatedPublicKey::new(pks); the signature of triple `bad` (if not 0) is
\* replaced by a different element, delta away.
AggBatchVerifyRequests ==
    UNION { { c \in [op : {"agg_batch_verify"}, done : {FALSE},
                     messages : batch_messages(n), bad : 0 .. n,
                     delta : NonZero] :
                c.bad = 0 => c.delta = 1 }
            : n \in 0 .. MaxBatch }

\* Signature::new_with_rk_mitigation(message, sk, pk_index, pks) over the
\* generated keys, for an index inside the list or one past its end.
NewWithRkMitigationRequests ==
    [op : {"new_with_rk_mitigation"}, done : {FALSE}, message : Msgs,
     sk : random, pk_index : 0 .. Len(pks)]

RECURSIVE sub_list(_, _, _)
\* The entries of list at the positions in S from i on, in the list's order.
sub_list(list, S, i) ==
    IF i > Len(list) THEN <<>>
    ELSE (IF i \in S THEN <<list[i]>> ELSE <<>>) \o sub_list(list, S, i + 1)

\* The permutations of list other than list, and its proper sub-lists.
other_lists(list) ==
    LET n == Len(list)
        perms == { [i \in 1 .. n |-> list[f[i]]] :
                     f \in { h \in [1 .. n -> 1 .. n] :
                               \A i, j \in 1 .. n : i # j => h[i] # h[j] } }
        subs == { sub_list(list, S, 1) : S \in (SUBSET (1 .. n)) \ {1 .. n} }
    IN  (perms \ {list}) \cup subs

\* The generated public keys are pairwise distinct.
distinct_keys == \A i, j \in 1 .. Len(pks) : i # j => pks[i] # pks[j]

\* AggregatedSignature::new(signatures).verify(message,
\* AggregatedPublicKey::new(other), g) for the mitigated signatures of all keys
\* over message, created over the list pks, and another list of the same keys.
AggVerifyOtherListRequests ==
    IF distinct_keys
    THEN [op : {"agg_verify_other_list"}, done : {FALSE}, message : Msgs,
          other : other_lists(pks)]
    ELSE {}

\* The value types of the module.
ValueTypes ==
    {"PrivateKey", "PublicKey", "AggregatedPublicKey", "Signature",
     "AggregatedSignature"}

\* The value types with to_bytes and from_bytes: AggregatedSignature has
\* new, verify, verify_no_rk and batch_verify only.
exposes_bytes(type) ==
    type \in {"PrivateKey", "PublicKey", "AggregatedPublicKey", "Signature"}

\* The value of a type with discrete logarithm (or field value) x.
value_of(type, x) ==
    CASE type = "PrivateKey" -> x
      [] type \in {"PublicKey", "AggregatedPublicKey"} -> Elem(GeneratorGroup, x)
      [] type \in {"Signature", "AggregatedSignature"} -> Elem(SignatureGroup, x)

\* The library's answer to bytes of the right length that encode nothing:
\* an error (accepts = FALSE) or the value of x.
library_verdict(type, v) ==
    IF v.accepts THEN Ok(value_of(type, v.x)) ELSE Err("Invalid")

Verdicts == [accepts : BOOLEAN, x : Zq]

\* x.to_bytes() followed by from_bytes of the result, for a value of each type.
RoundTripRequests ==
    [op : {"round_trip"}, done : {FALSE}, type : ValueTypes, x : Zq,
     verdict : {[accepts |-> FALSE, x |-> 0]}]

\* Byte strings up to one byte longer than the longest encoding.
ByteStrings == UNION { [1 .. n -> Byte] : n \in 0 .. GroupG2_SIZE + 1 }

\* from_bytes(bytes) of PublicKey, AggregatedPublicKey and Signature.
FromBytesRequests ==
    { c \in [op : {"from_bytes"}, done : {FALSE},
             type : {"PublicKey", "AggregatedPublicKey", "Signature"},
             bytes : ByteStrings, verdict : Verdicts] :
        ~c.verdict.accepts => c.verdict.x = 0 }

\* The requests the caller can make.
Requests ==
    VerifyRequests \cup VerifyMultiRequests \cup AggVerifyRequests
        \cup AggVerifyNoRkRequests \cup BatchVerifyRequests
        \cup AggBatchVerifyRequests \cup NewWithRkMitigationRequests
        \cup RoundTripRequests \cup FromBytesRequests
        \cup AggVerifyOtherListRequests

\* pks[pk_index] of a slice: inside the bounds, or the index panics.
index_in_bounds(pk_index, keys) == pk_index < Len(keys)

\* The messages a request hashes to the signature group.
hashed_messages(c) ==
    CASE c.op \in {"verify", "agg_verify", "agg_verify_no_rk"} ->
           {c.signed, c.message}
      [] c.op = "new_with_rk_mitigation" ->
           IF index_in_bounds(c.pk_index, pks) THEN {c.message} ELSE {}
      [] c.op \in {"round_trip", "from_bytes"} -> {}
      [] c.op = "agg_verify_other_list" -> {c.message}
      [] OTHER -> {c.messages[i] : i \in DOMAIN c.messages}

\* The byte strings a request hashes to the scalar field.
hashed_inputs(c) ==
    CASE c.op = "verify" ->
           IF c.rk THEN {coefficient_input(pks, pks[c.signer])} ELSE {}
      [] c.op = "agg_verify" -> coefficient_inputs(pks)
      [] c.op = "agg_verify_no_rk" ->
           IF c.rk THEN coefficient_inputs(pks) ELSE {}
      [] c.op = "agg_batch_verify" -> coefficient_inputs(pks)
      [] c.op = "new_with_rk_mitigation" ->
           IF index_in_bounds(c.pk_index, pks)
           THEN {coefficient_input(pks, pks[c.pk_index + 1])} ELSE {}
      [] c.op = "agg_verify_other_list" ->
           coefficient_inputs(pks) \cup coefficient_inputs(c.other)
      [] OTHER -> {}

\* The caller fixes one operation and its inputs: the hash functions take
\* some value on every input the operation evaluates.
Request ==
    /\ call.op = "none"
    /\ \E c \in Requests :
         /\ call' = c
         /\ \E h \in [hashed_messages(c) -> Zq] : msg_hash' = h
         /\ \E t \in [hashed_inputs(c) -> Zq] : fe_hash' = t
    /\ UNCHANGED <<cfg, sks, pks>>

\* The operation `op` was requested and has not returned.
Pending(op) == call.op = op /\ ~call.done

\* The operation returns: its inputs as built, what it drew and its result.
Return(built) ==
    /\ call' = [call EXCEPT !.done = TRUE] @@ built
    /\ UNCHANGED <<cfg, sks, pks, msg_hash, fe_hash>>

Verify ==
    /\ Pending("verify")
    /\ LET sig == IF call.rk
                  THEN Signature_new_with_rk_mitigation(
                           call.signed, sks[call.signer], call.signer - 1, pks)
                  ELSE Signature_new(call.signed, sks[call.signer])
       IN  Return([sig |-> sig,
                   result |-> Signature_verify(sig, call.message, pks[call.key],
                                               generator)])

VerifyMulti ==
    /\ Pending("verify_multi")
    /\ LET sigs == [i \in 1 .. Len(sks) |->
                      Signature_new(call.messages[i], sks[i])]
           self == IF call.honest THEN Signature_combine(Head(sigs), Tail(sigs))
                   ELSE Elem(SignatureGroup, call.forged)
           inputs == [i \in 1 .. Len(pks) |-> <<call.messages[i], pks[i]>>]
       IN  Return([self |-> self,
                   result |-> Signature_verify_multi(self, inputs, generator)])

AggVerify ==
    /\ Pending("agg_verify")
    /\ LET asg == AggregatedSignature_new(signatures_of(call.signed, call.rk))
           apk == AggregatedPublicKey_new(pks)
       IN  Return([asg |-> asg, apk |-> apk,
                   result |-> AggregatedSignature_verify(asg, call.message, apk,
                                                         generator)])

AggVerifyNoRk ==
    /\ Pending("agg_verify_no_rk")
    /\ LET asg == AggregatedSignature_new(signatures_of(call.signed, call.rk))
       IN  Return([asg |-> asg,
                   result |-> AggregatedSignature_verify_no_rk(
                                  asg, call.message, pks, generator)])

\* The signature of triple i: the one built, or, for the triple `bad`, the
\* one built plus a non-identity element.
corrupt(sig, i, bad, delta) ==
    IF i = bad THEN Add(sig, Elem(SignatureGroup, delta)) ELSE sig

\* The exponents FieldElement::random() draws for the triples at positions D;
\* a run repeated in the mirror configuration repeats the exponents drawn.
drawn_exponents(D) ==
    IF "exponents" \in DOMAIN call THEN {call.exponents} ELSE [D -> random]

BatchVerify ==
    /\ Pending("batch_verify")
    /\ \E random_exponents \in drawn_exponents(1 .. Len(pks)) :
         LET inputs == [i \in 1 .. Len(pks) |->
                          <<call.messages[i],
                            corrupt(Signature_new(call.messages[i], sks[i]),
                                    i, call.bad, call.delta),
                            pks[i]>>]
         IN  Return([inputs |-> inputs, random_exponents |-> random_exponents,
                     result |-> Signature_batch_verify(inputs, random_exponents,
                                                       generator)])

AggBatchVerify ==
    /\ Pending("agg_batch_verify")
    /\ \E random_exponents \in drawn_exponents(DOMAIN call.messages) :
         LET inputs == [i \in DOMAIN call.messages |->
                          <<call.messages[i],
                            corrupt(AggregatedSignature_new(
                                        signatures_of(call.messages[i], TRUE)),
                                    i, call.bad, call.delta),
                            AggregatedPublicKey_new(pks)>>]
         IN  Return([inputs |-> inputs, random_exponents |-> random_exponents,
                     result |-> AggregatedSignature_batch_verify(
                                    inputs, random_exponents, generator)])

\* Signature::new_with_rk_mitigation: the signature, or the panic of
\* pks[pk_index] for an index out of bounds, before anything is hashed.
NewWithRkMitigation ==
    /\ Pending("new_with_rk_mitigation")
    /\ IF index_in_bounds(call.pk_index, pks)
       THEN Return([panic |-> FALSE,
                    sig |-> Signature_new_with_rk_mitigation(
                                call.message, call.sk, call.pk_index, pks)])
       ELSE Return([panic |-> TRUE])

\* to_bytes of a value of the type.
type_to_bytes(type, value) ==
    CASE type = "PrivateKey" -> fe_to_bytes(value)
      [] type = "PublicKey" -> PublicKey_to_bytes(value)
      [] type = "AggregatedPublicKey" -> AggregatedPublicKey_to_bytes(value)
      [] type = "Signature" -> Signature_to_bytes(value)

\* from_bytes of the type.
type_from_bytes(type, bytes, verdict) ==
    CASE type = "PrivateKey" -> fe_from_bytes(bytes, verdict)
      [] type = "PublicKey" -> PublicKey_from_bytes(bytes, verdict)
      [] type = "AggregatedPublicKey" ->
           AggregatedPublicKey_from_bytes(bytes, verdict)
      [] type = "Signature" -> Signature_from_bytes(bytes, verdict)

\* The fixed encoded length of the type in the configuration.
fixed_size(type) ==
    CASE type = "PrivateKey" -> PRIVATE_KEY_SIZE
      [] type \in {"PublicKey", "AggregatedPublicKey"} -> PUBLIC_KEY_SIZE
      [] type \in {"Signature", "AggregatedSignature"} -> SIGNATURE_SIZE

\* x.to_bytes(), then from_bytes of the bytes; a type without the two
\* functions has nothing to call.
RoundTrip ==
    /\ Pending("round_trip")
    /\ IF exposes_bytes(call.type)
       THEN LET value == value_of(call.type, call.x)
                bytes == type_to_bytes(call.type, value)
            IN  Return([exposed |-> TRUE, value |-> value, bytes |-> bytes,
                        decoded |-> type_from_bytes(
                                        call.type, bytes,
                                        library_verdict(call.type, call.verdict))])
       ELSE Return([exposed |-> FALSE])

\* from_bytes(bytes)
FromBytes ==
    /\ Pending("from_bytes")
    /\ Return([result |-> type_from_bytes(
                              call.type, call.bytes,
                              library_verdict(call.type, call.verdict))])

AggVerifyOtherList ==
    /\ Pending("agg_verify_other_list")
    /\ LET asg == AggregatedSignature_new(signatures_of(call.message, TRUE))
           apk == AggregatedPublicKey_new(call.other)
       IN  Return([asg |-> asg, apk |-> apk,
                   result |-> AggregatedSignature_verify(asg, call.message, apk,
                                                         generator)])

Next ==
    \/ Generate
    \/ Request
    \/ Verify
    \/ VerifyMulti
    \/ AggVerify
    \/ AggVerifyNoRk
    \/ BatchVerify
    \/ AggBatchVerify
    \/ NewWithRkMitigation
    \/ RoundTrip
    \/ FromBytes
    \/ AggVerifyOtherList

Spec == Init /\ [][Next]_vars

----------------------------------------------------------------------------
(* The two configurations side by side: an operation that has returned is  *)
(* repeated in the mirror configuration with the same private keys,        *)
(* messages, signer list and random exponents.                             *)

\* The verification operations of the two modules.
MirroredOps ==
    {"verify", "verify_multi", "agg_verify", "agg_verify_no_rk",
     "batch_verify", "agg_batch_verify"}

\* The arguments of a request, without what the operation built.
request_fields(op) ==
    CASE op = "verify" ->
           {"op", "done", "rk", "signer", "key", "signed", "message"}
      [] op = "verify_multi" -> {"op", "done", "messages", "honest", "forged"}
      [] op \in {"agg_verify", "agg_verify_no_rk"} ->
           {"op", "done", "rk", "signed", "message"}
      [] op \in {"batch_verify", "agg_batch_verify"} ->
           {"op", "done", "messages", "bad", "delta"}

\* The key group of the mirror configuration.
MirrorGeneratorGroup == IF cfg = "normal" THEN "G2" ELSE "G1"

\* The public keys of the same private keys in the mirror configuration.
mirror_pks == [i \in 1 .. Len(sks) |-> Elem(MirrorGeneratorGroup, sks[i])]

\* The mirror configuration hashes to its own signature group: the same
\* values as this configuration's hash, or other values (here: another
\* value for the first message).
mirror_msg_hash(same) ==
    [m \in DOMAIN msg_hash |->
        IF same \/ m # <<1>> THEN msg_hash[m] ELSE (msg_hash[m] + 1) % Q]

\* The coefficients of the mirror configuration hash the mirror keys' bytes;
\* signer i's coefficient takes the value it has in this configuration.
mirror_fe_hash ==
    LET I == { i \in 1 .. Len(pks) :
                 coefficient_input(pks, pks[i]) \in DOMAIN fe_hash }
    IN  [b \in { coefficient_input(mirror_pks, mirror_pks[i]) : i \in I } |->
            LET i == CHOOSE j \in I :
                         coefficient_input(mirror_pks, mirror_pks[j]) = b
            IN  fe_hash[coefficient_input(pks, pks[i])]]

\* Repeat the returned operation in the mirror configuration.
Mirror ==
    /\ call.done
    /\ call.op \in MirroredOps
    /\ "mirror_of" \notin DOMAIN call
    /\ cfg' = (IF cfg = "normal" THEN "small" ELSE "normal")
    /\ pks' = mirror_pks
    /\ fe_hash' = mirror_fe_hash
    /\ \E same \in BOOLEAN :
         /\ msg_hash' = mirror_msg_hash(same)
         /\ call' = [f \in request_fields(call.op) |->
                       IF f = "done" THEN FALSE ELSE call[f]]
                    @@ [mirror_of |-> call.result, same_hashes |-> same]
                    @@ (IF "random_exponents" \in DOMAIN call
                        THEN [exponents |-> call.random_exponents]
                        ELSE <<>>)
    /\ UNCHANGED sks

NextDual == Next \/ Mirror

SpecDual == Init /\ [][NextDual]_vars

----------------------------------------------------------------------------
(* Properties.                                                             *)

\* The operation `op` has returned.
Returned(op) == call.op = op /\ call.done

\* a_i of the i-th generated key among all generated keys (i from 1).
coefficient(i) == fe_from_msg_hash(coefficient_input(pks, pks[i]))

\* The generated key pk signs its own message: sign and verify under the
\* same key pair and the same message, without mitigation.
SameKeySameMessage ==
    /\ Returned("verify")
    /\ ~call.rk
    /\ call.signer = call.key
    /\ call.signed = call.message

\* C1: for a generated key pair (pk, sk) and a message m,
\* Signature::new(m, sk).verify(m, pk, g) returns true, in both
\* configurations.
C1_SignVerify == SameKeySameMessage => call.result = TRUE

C1_Witness ==
    /\ SameKeySameMessage
    /\ cfg = "small"
    /\ from_msg_hash(call.message) # identity(SignatureGroup)
    /\ call.result = TRUE

\* Sign one message, verify another under the signer's own key.
SameKeyOtherMessage ==
    /\ Returned("verify")
    /\ ~call.rk
    /\ call.signer = call.key
    /\ call.signed # call.message

MitigatedAggregate ==
    /\ Returned("agg_verify")
    /\ call.rk
    /\ call.signed = call.message

\* C3: for the generated key pairs and one message m, the aggregate of the
\* signatures new_with_rk_mitigation(m, sk_i, i, pks) verifies against
\* AggregatedPublicKey::new(pks).
C3_MitigatedAggregateVerifies == MitigatedAggregate => call.result = TRUE

C3_Witness ==
    /\ MitigatedAggregate
    /\ Len(pks) >= 2
    /\ coefficient(1) # coefficient(2)
    /\ call.asg # identity(SignatureGroup)
    /\ call.result = TRUE

\* Two entries of the inputs of verify_multi have the same message hash.
RepeatedHash ==
    \E i, j \in DOMAIN call.messages :
        i # j /\ from_msg_hash(call.messages[i]) = from_msg_hash(call.messages[j])

\* C4: verify_multi returns false when two input entries have the same message
\* hash, whatever the signature and the keys are.
C4_RepeatedHashRejected ==
    (Returned("verify_multi") /\ RepeatedHash) => call.result = FALSE

\* The combined signature is honest and would pass without the check.
C4_Witness ==
    /\ Returned("verify_multi")
    /\ RepeatedHash
    /\ call.honest
    /\ call.messages[1] = call.messages[2]
    /\ call.self # identity(SignatureGroup)
    /\ call.result = FALSE

\* The signers' Signature::new over their own messages, combined.
HonestMulti == Returned("verify_multi") /\ call.honest

ReturnedBatch == Returned("batch_verify") \/ Returned("agg_batch_verify")

\* Triple i of the batch verifies on its own.
triple_verifies(i) ==
    IF call.op = "batch_verify"
    THEN Signature_verify(call.inputs[i][2], call.inputs[i][1],
                          call.inputs[i][3], generator)
    ELSE AggregatedSignature_verify(call.inputs[i][2], call.inputs[i][1],
                                    call.inputs[i][3], generator)

\* C6: if every triple of the batch verifies individually, batch_verify of
\* AggregatedSignature and of Signature returns true, whatever the random
\* exponents drawn.
C6_BatchComplete ==
    (ReturnedBatch /\ \A i \in DOMAIN call.inputs : triple_verifies(i))
    => call.result = TRUE

\* Signature::batch_verify accepts two valid triples under different
\* exponents.
C6_ReachedForSignatures ==
    /\ Returned("batch_verify")
    /\ Len(call.inputs) >= 2
    /\ \A i \in DOMAIN call.inputs : triple_verifies(i)
    /\ call.random_exponents[1] # call.random_exponents[2]
    /\ call.inputs[1][2] # identity(SignatureGroup)
    /\ call.result = TRUE

\* AggregatedSignature::batch_verify accepts a valid triple of two signers.
C6_Witness ==
    /\ Returned("agg_batch_verify")
    /\ Len(call.inputs) >= 1
    /\ Len(pks) >= 2
    /\ \A i \in DOMAIN call.inputs : triple_verifies(i)
    /\ call.inputs[1][2] # identity(SignatureGroup)
    /\ call.result = TRUE

\* Exactly one triple, `bad`, had its signature replaced by a different
\* element; every other triple verifies individually.
OneCorrupted ==
    /\ ReturnedBatch
    /\ call.bad # 0
    /\ \A i \in DOMAIN call.inputs : i # call.bad => triple_verifies(i)

\* C7: if all triples verify individually except exactly one, whose signature
\* was replaced by a different group element and whose random exponent is not
\* zero, batch_verify returns false.
C7_BatchSound ==
    (OneCorrupted /\ call.random_exponents[call.bad] # 0)
    => call.result = FALSE

C7_Witness ==
    /\ OneCorrupted
    /\ call.random_exponents[call.bad] # 0
    /\ ~triple_verifies(call.bad)
    /\ Len(call.inputs) >= 2
    /\ call.result = FALSE

\* One mitigated signature of a generated key, verified on its own under the
\* signer's key and the signed message.
MitigatedStandalone ==
    /\ Returned("verify")
    /\ call.rk
    /\ call.signer = call.key
    /\ call.signed = call.message

PlainAgainstWeighted ==
    /\ Returned("agg_verify")
    /\ ~call.rk
    /\ call.signed = call.message

RECURSIVE weighted_gap(_)
\* sk_1 * (a_1 - 1) + ... + sk_n * (a_n - 1) in the scalar field: what the
\* weighted aggregate key has more than the plain sum of the first n keys.
weighted_gap(n) ==
    IF n = 0 THEN 0
    ELSE (weighted_gap(n - 1) + sks[n] * (coefficient(n) + Q - 1)) % Q

PlainNoRk ==
    /\ Returned("agg_verify_no_rk")
    /\ ~call.rk
    /\ call.signed = call.message

\* C10: for the generated key pairs and one message m, the sum of the
\* signatures Signature::new(m, sk_i) verifies with verify_no_rk(m, pks, g).
C10_PlainNoRkVerifies == PlainNoRk => call.result = TRUE

C10_Witness ==
    /\ PlainNoRk
    /\ Len(pks) >= 2
    /\ call.asg # identity(SignatureGroup)
    /\ call.result = TRUE

\* The operations that return bool.
VerificationOps ==
    {"verify", "verify_multi", "agg_verify", "agg_verify_no_rk",
     "batch_verify", "agg_batch_verify", "agg_verify_other_list"}

\* C11: no operation panics on well-typed inputs: every verification returns
\* a boolean, empty lists included, and Signature::new_with_rk_mitigation
\* returns a Signature for every pk_index and every list pks, pk_index >=
\* len(pks) and the empty list included.
C11_NoPanic ==
    call.done =>
        /\ call.op \in VerificationOps => call.result \in BOOLEAN
        /\ call.op = "new_with_rk_mitigation" => ~call.panic

\* The part of C11 the code keeps: the verifications return a boolean, and
\* new_with_rk_mitigation returns a Signature for an index inside the list.
C11_NoPanicInBounds ==
    call.done =>
        /\ call.op \in VerificationOps => call.result \in BOOLEAN
        /\ (call.op = "new_with_rk_mitigation"
              /\ index_in_bounds(call.pk_index, pks)) => ~call.panic

\* C12: for every value type (PrivateKey, PublicKey, AggregatedPublicKey,
\* Signature, AggregatedSignature) and every value x, to_bytes(x) has the
\* configuration's fixed length and from_bytes(to_bytes(x)) is Ok of a value
\* equal to x.
C12_RoundTrip ==
    Returned("round_trip") =>
        /\ call.exposed
        /\ Len(call.bytes) = fixed_size(call.type)
        /\ call.decoded = Ok(call.value)

\* The part of C12 the code keeps: the round trip of the types that have
\* to_bytes and from_bytes.
C12_RoundTripWhereExposed ==
    (Returned("round_trip") /\ exposes_bytes(call.type)) =>
        /\ Len(call.bytes) = fixed_size(call.type)
        /\ call.decoded = Ok(call.value)

\* The coefficient of key k in the ordered list keys.
coefficient_in(keys, k) == fe_from_msg_hash(coefficient_input(keys, k))

RECURSIVE weighted_sum(_, _)
\* The sum of sk * t over the keys of rest, t the key's coefficient in the
\* list keys and sk its private key (a generated key is g * sk).
weighted_sum(keys, rest) ==
    IF rest = <<>> THEN 0
    ELSE (Head(rest).x * coefficient_in(keys, Head(rest))
            + weighted_sum(keys, Tail(rest))) % Q

ReturnedInBoth == call.done /\ "mirror_of" \in DOMAIN call

EmptyAggregates == Returned("agg_verify") /\ Len(pks) = 0

\* C16: AggregatedSignature::new(&[]) and AggregatedPublicKey::new(&[]) are
\* both the group identity, and verifying the one against the other returns
\* true for every message m, although no signer signed m.
C16_EmptyAggregatesAccepted ==
    EmptyAggregates
    => /\ call.asg = identity(SignatureGroup)
       /\ call.apk = identity(GeneratorGroup)
       /\ call.result = TRUE

\* The empty aggregates accepted for a message whose hash is not the identity.
C16_Witness ==
    /\ EmptyAggregates
    /\ from_msg_hash(call.message) # identity(SignatureGroup)
    /\ call.result = TRUE

====
